---- MODULE Spec2Model ----
(***************************************************************************)
(* A model of src/benchmark.py: the benchmark driver main(), the timed     *)
(* execution wrapper run_query() and the ResourceMonitor whose sampler     *)
(* thread runs concurrently with the primary thread.                       *)
(*                                                                         *)
(* Two threads take steps: the primary thread (pc) and the sampler thread  *)
(* of the current ResourceMonitor (spc).  Every step is one statement (or  *)
(* one blocking call) of the source.  The environment decides which files  *)
(* exist, whether a query raises, and whether a sampling observation       *)
(* raises.  Metric readings and the duration of a query are fixed values   *)
(* (CpuReadings, MemReadings, OpTimes): the run-level specification is    *)
(* about control flow, interleaving and the shape of results.              *)
(***************************************************************************)
EXTENDS Integers, Sequences, FiniteSets, TLC

(***************************************************************************)
(* Program constants                                                       *)
(***************************************************************************)
\* src/benchmark.py:94
THREAD_COUNTS == <<1, 2, 4, 8, 16, 24>>

\* src/benchmark.py:97
ITERATIONS == 5

\* src/benchmark.py:100
CLEAR_CACHE == TRUE

\* src/benchmark.py:103-131, the keys of QUERIES in insertion order
QUERIES == <<"Q1", "Q2", "Q3">>

\* src/benchmark.py:87-88
PARQUET_PATH == "data/yellow_tripdata_*.parquet"
CSV_PATH == "data/yellow_tripdata_*.csv"

\* src/benchmark.py:259-263, the items of scales in insertion order
scales ==
    << [name |-> "1_Month", path |-> "data/yellow_tripdata_2019-01.parquet"],
       [name |-> "1_Year",  path |-> "data/yellow_tripdata_2019-*.parquet"],
       [name |-> "3_Years", path |-> "data/yellow_tripdata_*.parquet"] >>

(***************************************************************************)
(* Bounds and the environment's input sets                                 *)
(***************************************************************************)
\* The sampler loop of one monitor enters its body at most MaxSamples times.
MaxSamples == 2

\* The files that may exist under data/.
FileNames ==
    { "data/yellow_tripdata_2019-01.parquet",
      "data/yellow_tripdata_2019-06.parquet",
      "data/yellow_tripdata_2020-01.parquet",
      "data/yellow_tripdata_2019-01.csv" }

\* The directory contents a run may start with: one directory for every
\* combination of outcomes of main's glob calls (no Parquet file; Parquet
\* files of another year only; of 2019 but not of January; of January 2019),
\* each without and with a CSV file.
ParquetSets ==
    { {},
      { "data/yellow_tripdata_2020-01.parquet" },
      { "data/yellow_tripdata_2019-06.parquet", "data/yellow_tripdata_2020-01.parquet" },
      { "data/yellow_tripdata_2019-01.parquet", "data/yellow_tripdata_2019-06.parquet",
        "data/yellow_tripdata_2020-01.parquet" } }

FileSystems ==
    { p \cup c : p \in ParquetSets, c \in { {}, { "data/yellow_tripdata_2019-01.csv" } } }

\* What process.cpu_percent() and rss/(1024*1024) may read.
CpuReadings == {0}
MemReadings == {0}

\* The wall-clock time one conn.execute(sql).fetchall() takes.
OpTimes == {1}

(***************************************************************************)
(* Pure helpers                                                            *)
(***************************************************************************)
RECURSIVE Sum(_)
\* Python's sum() over a list of integers.
Sum(s) == IF s = <<>> THEN 0 ELSE Head(s) + Sum(Tail(s))

RECURSIVE SeqMax(_)
\* Python's max() over a non-empty list.
SeqMax(s) ==
    IF Len(s) = 1 THEN s[1]
    ELSE LET m == SeqMax(Tail(s)) IN IF Head(s) >= m THEN Head(s) ELSE m

RECURSIVE Gcd(_, _)
Gcd(a, b) == IF b = 0 THEN a ELSE Gcd(b, a % b)

\* The quotient n / d of Python's true division, as a fraction in lowest terms.
Rat(n, d) ==
    LET g == Gcd(n, d) IN
    IF n = 0 THEN [num |-> 0, den |-> 1] ELSE [num |-> n \div g, den |-> d \div g]

RatAdd(a, b) == Rat(a.num * b.den + b.num * a.den, a.den * b.den)

RECURSIVE RatSum(_)
\* sum() over a list of fractions.
RatSum(s) == IF s = <<>> THEN Rat(0, 1) ELSE RatAdd(Head(s), RatSum(Tail(s)))

\* x / n for a fraction x and a positive integer n.
RatDiv(x, n) == Rat(x.num, x.den * n)

\* glob.glob(pattern) over the directory contents fs.
Glob(fs, pattern) ==
    CASE pattern = "data/yellow_tripdata_*.parquet" ->
            fs \cap { "data/yellow_tripdata_2019-01.parquet",
                      "data/yellow_tripdata_2019-06.parquet",
                      "data/yellow_tripdata_2020-01.parquet" }
      [] pattern = "data/yellow_tripdata_2019-*.parquet" ->
            fs \cap { "data/yellow_tripdata_2019-01.parquet",
                      "data/yellow_tripdata_2019-06.parquet" }
      [] pattern = "data/yellow_tripdata_*.csv" ->
            fs \cap { "data/yellow_tripdata_2019-01.csv" }
      [] OTHER -> fs \cap {pattern}

\* max(THREAD_COUNTS), line 211
max_threads == SeqMax(THREAD_COUNTS)

(***************************************************************************)
(* State                                                                   *)
(***************************************************************************)
VARIABLES
    files,          \* the contents of data/
    clear_cache,    \* the module variable CLEAR_CACHE
    pc,             \* the primary thread's position
    results,        \* main's results list
    written,        \* the number of times RESULT_FILE was written
    saved,          \* the records last written to RESULT_FILE
    tIdx,           \* index into THREAD_COUNTS of the Parallelism loop
    qIdx,           \* index into QUERIES of the current query loop
    sIdx,           \* index into scales of the Data_Scale loop
    i,              \* the value of the loop variable of range(ITERATIONS)
    times, cpus, mems,      \* the per-configuration lists
    connThreads,    \* the engine's thread setting (PRAGMA threads)
    caller,         \* the phase whose loop called run_query
    calls,          \* the number of calls of run_query so far
    running,        \* monitor.running
    cpu_usage, memory_usage,    \* monitor.cpu_usage, monitor.memory_usage
    thread,         \* monitor.thread: "None" or "Thread"
    spc,            \* the sampler thread's position
    cpu, mem,       \* the sampler thread's locals
    loops,          \* how often the sampler loop of this monitor entered its body
    alive,          \* the number of sampler threads started and not yet terminated
    now,            \* the wall clock
    start_time, end_time,   \* run_query's locals
    stats,          \* run_query's (avg_cpu, max_mem)
    ret,            \* run_query's return value
    raised,         \* whether the query of this run_query call raised
    op_begin, op_end,       \* the clock when con.execute was called and when it ended
    failed          \* how many iterations of this configuration raised

mainVars == <<files, clear_cache, results, written, saved, tIdx, qIdx, sIdx, i,
              times, cpus, mems>>
monVars == <<running, cpu_usage, memory_usage, thread>>
samplerVars == <<spc, cpu, mem, loops, alive>>
rqVars == <<connThreads, caller, calls, now, start_time, end_time, stats, ret, raised, failed>>
opVars == <<op_begin, op_end>>
vars == <<pc, mainVars, monVars, samplerVars, rqVars, opVars>>

None == "None"

(***************************************************************************)
(* ResourceMonitor                                                         *)
(***************************************************************************)
\* The sampler thread of the current monitor has been started and has not
\* returned from _monitor.
ThreadAlive == spc \notin {"none", "dead"}

\* _monitor with while True at line 23: the loop never reads running.
SamplerWhile_IgnoresFlag ==
    /\ spc = "while"
    /\ loops < MaxSamples
    /\ spc' = "cpu"
    /\ loops' = loops + 1
    /\ UNCHANGED <<opVars, pc, mainVars, monVars, rqVars, cpu, mem, alive>>

\* _monitor, line 23: the loop test.  The thread leaves the loop, and
\* terminates, when it reads running = False.
SamplerWhile ==
    /\ spc = "while"
    /\ \/ /\ running
          /\ loops < MaxSamples
          /\ spc' = "cpu"
          /\ loops' = loops + 1
          /\ alive' = alive
       \/ /\ ~running
          /\ spc' = "dead"
          /\ alive' = alive - 1
          /\ loops' = loops
    /\ UNCHANGED <<opVars, pc, mainVars, monVars, rqVars, cpu, mem>>

\* _monitor with continue instead of break at line 33: after a failed
\* observation the loop goes on.
SamplerCpuPercent_Continue ==
    /\ spc = "cpu"
    /\ \/ /\ \E r \in CpuReadings : cpu' = r
          /\ spc' = "mem"
       \/ /\ spc' = "while"
          /\ cpu' = cpu
    /\ UNCHANGED <<opVars, pc, mainVars, monVars, rqVars, mem, loops, alive>>

\* _monitor, line 28: the blocking observation of the CPU share; a failed
\* observation is caught at line 32 and ends the loop and the thread.
SamplerCpuPercent ==
    /\ spc = "cpu"
    /\ \/ /\ \E r \in CpuReadings : cpu' = r
          /\ spc' = "mem"
          /\ alive' = alive
       \/ /\ spc' = "dead"
          /\ alive' = alive - 1
          /\ cpu' = cpu
    /\ UNCHANGED <<opVars, pc, mainVars, monVars, rqVars, mem, loops>>

\* _monitor appending the CPU reading before it reads the memory: a failed
\* memory observation leaves the CPU sample in the series.
SamplerMemoryInfo_CpuAppendedFirst ==
    /\ spc = "mem"
    /\ \/ /\ \E r \in MemReadings : mem' = r
          /\ spc' = "app_cpu"
          /\ alive' = alive
          /\ cpu_usage' = cpu_usage
       \/ /\ spc' = "dead"
          /\ alive' = alive - 1
          /\ mem' = mem
          /\ cpu_usage' = Append(cpu_usage, cpu)
    /\ UNCHANGED <<opVars, pc, mainVars, rqVars, running, memory_usage, thread, cpu, loops>>

\* _monitor, line 29: the observation of the resident memory; a failed
\* observation is caught at line 32 and ends the loop and the thread.
SamplerMemoryInfo ==
    /\ spc = "mem"
    /\ \/ /\ \E r \in MemReadings : mem' = r
          /\ spc' = "app_cpu"
          /\ alive' = alive
       \/ /\ spc' = "dead"
          /\ alive' = alive - 1
          /\ mem' = mem
    /\ UNCHANGED <<opVars, pc, mainVars, monVars, rqVars, cpu, loops>>

\* _monitor, line 30
SamplerAppendCpu ==
    /\ spc = "app_cpu"
    /\ cpu_usage' = Append(cpu_usage, cpu)
    /\ spc' = "app_mem"
    /\ UNCHANGED <<opVars, pc, mainVars, rqVars, running, memory_usage, thread, cpu, mem,
                   loops, alive>>

\* _monitor, line 31
SamplerAppendMem ==
    /\ spc = "app_mem"
    /\ memory_usage' = Append(memory_usage, mem)
    /\ spc' = "while"
    /\ UNCHANGED <<opVars, pc, mainVars, rqVars, running, cpu_usage, thread, cpu, mem,
                   loops, alive>>

\* get_stats reporting the last memory sample instead of the largest.
get_stats_LastMem(cu, mu) ==
    IF cu = <<>> THEN [avg_cpu |-> Rat(0, 1), max_mem |-> 0]
    ELSE [avg_cpu |-> Rat(Sum(cu), Len(cu)),
          max_mem |-> IF mu # <<>> THEN mu[Len(mu)] ELSE 0]

\* get_stats, lines 45-50, on the two series
get_stats(cu, mu) ==
    IF cu = <<>> THEN [avg_cpu |-> Rat(0, 1), max_mem |-> 0]
    ELSE [avg_cpu |-> Rat(Sum(cu), Len(cu)),
          max_mem |-> IF mu # <<>> THEN SeqMax(mu) ELSE 0]

(***************************************************************************)
(* run_query                                                               *)
(***************************************************************************)
\* The threads argument of the call in progress.
CurThreads == IF caller = "p1" THEN THREAD_COUNTS[tIdx] ELSE max_threads

\* Where run_query returns to.
ReturnSite == CASE caller = "p1" -> "p1_record"
                [] caller = "p2" -> "p2_record"
                [] OTHER -> "p3_record"

\* lines 52-56: run_query is entered and sets the engine's thread count.
RqPragma ==
    /\ pc = "rq_pragma"
    /\ connThreads' = CurThreads
    /\ calls' = calls + 1
    /\ pc' = "rq_drop"
    /\ UNCHANGED <<opVars, mainVars, monVars, samplerVars, caller, now, start_time, end_time,
                   stats, ret, raised, failed>>

\* platform.system(), line 143
Systems == {"Linux", "Darwin", "Windows"}

\* What subprocess.run(..., check=True) can do, lines 147-152: return, or
\* raise because the command exited with a failure status or could not be
\* started.
CommandResults == {"ok", "failed"}

\* line 59 and drop_os_caches, lines 140-145: return at once when the
\* toggle is off; otherwise ask for the platform and enter the try block,
\* which invokes a first command on Linux and on Darwin and does nothing
\* on any other platform.
RqDropCaches ==
    /\ pc = "rq_drop"
    /\ IF ~clear_cache
         THEN pc' = "rq_monitor"
         ELSE \E system \in Systems :
                pc' = IF system \in {"Linux", "Darwin"} THEN "dc_sync" ELSE "rq_monitor"
    /\ UNCHANGED <<opVars, mainVars, monVars, samplerVars, rqVars>>

\* drop_os_caches without the try block of lines 144-154: a failing command
\* raises out of drop_os_caches and, uncaught, out of run_query and main.
DcSync_Propagates ==
    /\ pc = "dc_sync"
    /\ \E result \in CommandResults :
         pc' = IF result = "ok" THEN "dc_second" ELSE "crashed"
    /\ UNCHANGED <<opVars, mainVars, monVars, samplerVars, rqVars>>

\* lines 147 and 151: subprocess.run(["sync"], check=True); a failure
\* enters the handler of line 153.
DcSync ==
    /\ pc = "dc_sync"
    /\ \E result \in CommandResults :
         pc' = IF result = "ok" THEN "dc_second" ELSE "dc_except"
    /\ UNCHANGED <<opVars, mainVars, monVars, samplerVars, rqVars>>

\* lines 149 and 152: the command that drops the caches (sudo sh -c ... on
\* Linux, sudo purge on Darwin); success ends drop_os_caches, a failure
\* enters the handler of line 153.
DcSecond ==
    /\ pc = "dc_second"
    /\ \E result \in CommandResults :
         pc' = IF result = "ok" THEN "rq_monitor" ELSE "dc_except"
    /\ UNCHANGED <<opVars, mainVars, monVars, samplerVars, rqVars>>

\* lines 153-154: the handler prints a warning and drop_os_caches returns.
DcExcept ==
    /\ pc = "dc_except"
    /\ pc' = "rq_monitor"
    /\ UNCHANGED <<opVars, mainVars, monVars, samplerVars, rqVars>>

\* run_query using one monitor for all its calls: the series of the calls
\* before are still in it.
RqNewMonitor_Reused ==
    /\ pc = "rq_monitor"
    /\ running' = FALSE
    /\ thread' = None
    /\ spc' = "none"
    /\ loops' = 0
    /\ raised' = FALSE
    /\ pc' = "rq_start_time"
    /\ UNCHANGED <<opVars, mainVars, cpu_usage, memory_usage, cpu, mem, alive, connThreads,
                   caller, calls, now, start_time, end_time, stats, ret, failed>>

\* line 64 and ResourceMonitor.__init__, lines 14-19: a new monitor, which
\* has no thread yet.
RqNewMonitor ==
    /\ pc = "rq_monitor"
    /\ running' = FALSE
    /\ cpu_usage' = <<>>
    /\ memory_usage' = <<>>
    /\ thread' = None
    /\ spc' = "none"
    /\ loops' = 0
    /\ raised' = FALSE
    /\ pc' = "rq_start_time"
    /\ UNCHANGED <<opVars, mainVars, cpu, mem, alive, connThreads, caller, calls, now,
                   start_time, end_time, stats, ret, failed>>

\* line 66
RqStartTime ==
    /\ pc = "rq_start_time"
    /\ start_time' = now
    /\ pc' = "rq_start"
    /\ UNCHANGED <<opVars, mainVars, monVars, samplerVars, connThreads, caller, calls, now,
                   end_time,
                   stats, ret, raised, failed>>

\* line 67 and start, lines 35-38: the new thread begins at the top of
\* _monitor (line 22 reads no shared state).
RqMonitorStart ==
    /\ pc = "rq_start"
    /\ running' = TRUE
    /\ thread' = "Thread"
    /\ spc' = "while"
    /\ alive' = alive + 1
    /\ pc' = "rq_exec"
    /\ UNCHANGED <<opVars, mainVars, rqVars, cpu_usage, memory_usage, cpu, mem, loops>>

\* line 69: the primary thread enters the blocking engine call.
RqExecBegin ==
    /\ pc = "rq_exec"
    /\ pc' = "rq_executing"
    /\ op_begin' = now
    /\ UNCHANGED <<op_end, mainVars, monVars, samplerVars, rqVars>>

\* run_query with monitor.stop() at the end of the try block instead of in a
\* finally clause: an engine error skips it.
RqExecEnd_NoFinally ==
    /\ pc = "rq_executing"
    /\ \E d \in OpTimes : now' = now + d
    /\ op_end' = now'
    /\ \/ /\ raised' = FALSE
          /\ failed' = failed
          /\ pc' = "rq_stop"
       \/ /\ raised' = TRUE
          /\ failed' = failed + 1
          /\ pc' = "rq_end_time"
    /\ UNCHANGED <<op_begin, mainVars, monVars, samplerVars, connThreads, caller, calls,
                   start_time, end_time, stats, ret>>

\* run_query without the except clause of line 70: an engine error leaves
\* run_query and, uncaught, main.
RqExecEnd_Propagates ==
    /\ pc = "rq_executing"
    /\ \E d \in OpTimes : now' = now + d
    /\ op_end' = now'
    /\ \/ /\ raised' = FALSE
          /\ failed' = failed
          /\ pc' = "rq_stop"
       \/ /\ raised' = TRUE
          /\ failed' = failed + 1
          /\ pc' = "crashed"
    /\ UNCHANGED <<op_begin, mainVars, monVars, samplerVars, connThreads, caller, calls,
                   start_time, end_time, stats, ret>>

\* lines 69-72: the engine call returns, or raises and the error is printed
\* at line 71; either way control reaches the finally clause.
RqExecEnd ==
    /\ pc = "rq_executing"
    /\ \E d \in OpTimes : now' = now + d
    /\ op_end' = now'
    /\ \/ /\ raised' = FALSE
          /\ failed' = failed
       \/ /\ raised' = TRUE
          /\ failed' = failed + 1
    /\ pc' = "rq_stop"
    /\ UNCHANGED <<op_begin, mainVars, monVars, samplerVars, connThreads, caller, calls,
                   start_time, end_time, stats, ret>>

\* line 73 and stop, line 41
RqStopSignal ==
    /\ pc = "rq_stop"
    /\ running' = FALSE
    /\ pc' = "rq_join"
    /\ UNCHANGED <<opVars, mainVars, samplerVars, rqVars, cpu_usage, memory_usage, thread>>

\* stop without the join of line 43: the caller goes on while the thread runs.
RqStopJoin_NoWait ==
    /\ pc = "rq_join"
    /\ pc' = "rq_end_time"
    /\ UNCHANGED <<opVars, mainVars, monVars, samplerVars, rqVars>>

\* stop, lines 42-43: join returns once the thread has terminated.
RqStopJoin ==
    /\ pc = "rq_join"
    /\ IF thread # None THEN spc = "dead" ELSE TRUE
    /\ pc' = "rq_end_time"
    /\ UNCHANGED <<opVars, mainVars, monVars, samplerVars, rqVars>>

\* run_query reading the clock for end_time before monitor.stop(): end_time
\* is the time at which the engine call ended.
RqEndTime_BeforeStop ==
    /\ pc = "rq_end_time"
    /\ end_time' = op_end
    /\ pc' = "rq_stats"
    /\ UNCHANGED <<opVars, mainVars, monVars, samplerVars, connThreads, caller, calls, now,
                   start_time, stats, ret, raised, failed>>

\* line 74
RqEndTime ==
    /\ pc = "rq_end_time"
    /\ end_time' = now
    /\ pc' = "rq_stats"
    /\ UNCHANGED <<opVars, mainVars, monVars, samplerVars, connThreads, caller, calls, now,
                   start_time, stats, ret, raised, failed>>

\* line 76
RqGetStats ==
    /\ pc = "rq_stats"
    /\ stats' = get_stats(cpu_usage, memory_usage)
    /\ pc' = "rq_return"
    /\ UNCHANGED <<opVars, mainVars, monVars, samplerVars, connThreads, caller, calls, now,
                   start_time,
                   end_time, ret, raised, failed>>

\* lines 77-80
RqReturn ==
    /\ pc = "rq_return"
    /\ ret' = [duration |-> end_time - start_time,
               avg_cpu |-> stats.avg_cpu,
               max_mem |-> stats.max_mem]
    /\ pc' = ReturnSite
    /\ UNCHANGED <<opVars, mainVars, monVars, samplerVars, connThreads, caller, calls, now,
                   start_time,
                   end_time, stats, raised, failed>>

(***************************************************************************)
(* main                                                                    *)
(***************************************************************************)
\* lines 194-196, 237-239, 286-288: the three aggregates of a configuration
avg_time == Rat(Sum(times), Len(times))
avg_cpu_total == RatDiv(RatSum(cpus), Len(cpus))
\* The peak taken from the last iteration instead of the largest one.
max_mem_peak_Last == mems[Len(mems)]

max_mem_peak == SeqMax(mems)

\* main without the return of line 171 (its comment: "Proceeding anyway").
MainCheckParquet_NoReturn ==
    /\ pc = "main"
    /\ tIdx' = 1
    /\ qIdx' = 1
    /\ pc' = "p1_config"
    /\ UNCHANGED <<opVars, files, clear_cache, results, written, saved, sIdx, i, times,
                   cpus, mems, monVars, samplerVars, rqVars>>

\* lines 160-171: the results list and the connection are created; without a
\* Parquet file main returns at once.
MainCheckParquet ==
    /\ pc = "main"
    /\ \/ /\ Glob(files, PARQUET_PATH) = {}
          /\ pc' = "aborted"
          /\ UNCHANGED <<tIdx, qIdx>>
       \/ /\ Glob(files, PARQUET_PATH) # {}
          /\ tIdx' = 1
          /\ qIdx' = 1
          /\ pc' = "p1_config"
    /\ UNCHANGED <<opVars, files, clear_cache, results, written, saved, sIdx, i, times,
                   cpus, mems, monVars, samplerVars, rqVars>>

\* lines 181-188: one (threads, query) configuration of the Parallelism phase
\* begins with empty lists.
P1Config ==
    /\ pc = "p1_config"
    /\ times' = <<>> /\ cpus' = <<>> /\ mems' = <<>>
    /\ i' = 0
    /\ failed' = 0
    /\ caller' = "p1"
    /\ pc' = "p1_iter"
    /\ UNCHANGED <<opVars, files, clear_cache, results, written, saved, tIdx, qIdx, sIdx,
                   monVars,
                   samplerVars, connThreads, calls, now, start_time, end_time, stats, ret,
                   raised>>

\* lines 188-189: the next iteration calls run_query; after the last one the
\* loop ends.
P1Iter ==
    /\ pc = "p1_iter"
    /\ \/ /\ i < ITERATIONS
          /\ pc' = "rq_pragma"
       \/ /\ i >= ITERATIONS
          /\ pc' = "p1_agg"
    /\ UNCHANGED <<opVars, mainVars, monVars, samplerVars, rqVars>>

\* lines 189-192: the returned triple is appended to the lists.
P1Record ==
    /\ pc = "p1_record"
    /\ times' = Append(times, ret.duration)
    /\ cpus' = Append(cpus, ret.avg_cpu)
    /\ mems' = Append(mems, ret.max_mem)
    /\ i' = i + 1
    /\ pc' = "p1_iter"
    /\ UNCHANGED <<opVars, files, clear_cache, results, written, saved, tIdx, qIdx, sIdx,
                   monVars, samplerVars, rqVars>>

\* The Parallelism phase inserting each record at the front of results.
P1Append_Prepend ==
    /\ pc = "p1_agg"
    /\ results' = <<[Experiment |-> "Parallelism", Format |-> "Parquet",
             Query |-> QUERIES[qIdx], Threads |-> THREAD_COUNTS[tIdx],
             Avg_Time_Sec |-> avg_time, Avg_CPU_Pct |-> avg_cpu_total,
             Max_Mem_MB |-> max_mem_peak, Raw_Times |-> times]>> \o results
    /\ \/ /\ qIdx < Len(QUERIES)
          /\ qIdx' = qIdx + 1
          /\ tIdx' = tIdx
          /\ pc' = "p1_config"
       \/ /\ qIdx = Len(QUERIES)
          /\ tIdx < Len(THREAD_COUNTS)
          /\ qIdx' = 1
          /\ tIdx' = tIdx + 1
          /\ pc' = "p1_config"
       \/ /\ qIdx = Len(QUERIES)
          /\ tIdx = Len(THREAD_COUNTS)
          /\ UNCHANGED <<qIdx, tIdx>>
          /\ pc' = "p2_check"
    /\ UNCHANGED <<opVars, files, clear_cache, written, saved, sIdx, i, times, cpus, mems,
                   monVars, samplerVars, rqVars>>

\* lines 194-207, and the advance of the loops of lines 178 and 181
P1Append ==
    /\ pc = "p1_agg"
    /\ results' = Append(results,
            [Experiment |-> "Parallelism", Format |-> "Parquet",
             Query |-> QUERIES[qIdx], Threads |-> THREAD_COUNTS[tIdx],
             Avg_Time_Sec |-> avg_time, Avg_CPU_Pct |-> avg_cpu_total,
             Max_Mem_MB |-> max_mem_peak, Raw_Times |-> times])
    /\ \/ /\ qIdx < Len(QUERIES)
          /\ qIdx' = qIdx + 1
          /\ tIdx' = tIdx
          /\ pc' = "p1_config"
       \/ /\ qIdx = Len(QUERIES)
          /\ tIdx < Len(THREAD_COUNTS)
          /\ qIdx' = 1
          /\ tIdx' = tIdx + 1
          /\ pc' = "p1_config"
       \/ /\ qIdx = Len(QUERIES)
          /\ tIdx = Len(THREAD_COUNTS)
          /\ UNCHANGED <<qIdx, tIdx>>
          /\ pc' = "p2_check"
    /\ UNCHANGED <<opVars, files, clear_cache, written, saved, sIdx, i, times, cpus, mems,
                   monVars, samplerVars, rqVars>>

\* The Format_Comparison phase without the test of line 219.
P2Check_NoSkip ==
    /\ pc = "p2_check"
    /\ qIdx' = 1
    /\ sIdx' = sIdx
    /\ pc' = "p2_config"
    /\ UNCHANGED <<opVars, files, clear_cache, results, written, saved, tIdx, i, times,
                   cpus, mems, monVars, samplerVars, rqVars>>

\* main writing RESULT_FILE at the end of the Parallelism phase as well.
P2Check_Saves ==
    /\ pc = "p2_check"
    /\ saved' = results
    /\ written' = written + 1
    /\ \/ /\ Glob(files, CSV_PATH) = {}
          /\ sIdx' = 1
          /\ qIdx' = qIdx
          /\ pc' = "p3_scale"
       \/ /\ Glob(files, CSV_PATH) # {}
          /\ qIdx' = 1
          /\ sIdx' = sIdx
          /\ pc' = "p2_config"
    /\ UNCHANGED <<opVars, files, clear_cache, results, tIdx, i, times, cpus, mems,
                   monVars, samplerVars, rqVars>>

\* lines 211-222: the Format_Comparison phase is skipped without a CSV file.
P2Check ==
    /\ pc = "p2_check"
    /\ \/ /\ Glob(files, CSV_PATH) = {}
          /\ sIdx' = 1
          /\ qIdx' = qIdx
          /\ pc' = "p3_scale"
       \/ /\ Glob(files, CSV_PATH) # {}
          /\ qIdx' = 1
          /\ sIdx' = sIdx
          /\ pc' = "p2_config"
    /\ UNCHANGED <<opVars, files, clear_cache, results, written, saved, tIdx, i, times,
                   cpus, mems, monVars, samplerVars, rqVars>>

\* lines 222-231
P2Config ==
    /\ pc = "p2_config"
    /\ times' = <<>> /\ cpus' = <<>> /\ mems' = <<>>
    /\ i' = 0
    /\ failed' = 0
    /\ caller' = "p2"
    /\ pc' = "p2_iter"
    /\ UNCHANGED <<opVars, files, clear_cache, results, written, saved, tIdx, qIdx, sIdx,
                   monVars,
                   samplerVars, connThreads, calls, now, start_time, end_time, stats, ret,
                   raised>>

\* lines 231-232
P2Iter ==
    /\ pc = "p2_iter"
    /\ \/ /\ i < ITERATIONS
          /\ pc' = "rq_pragma"
       \/ /\ i >= ITERATIONS
          /\ pc' = "p2_agg"
    /\ UNCHANGED <<opVars, mainVars, monVars, samplerVars, rqVars>>

\* lines 232-235
P2Record ==
    /\ pc = "p2_record"
    /\ times' = Append(times, ret.duration)
    /\ cpus' = Append(cpus, ret.avg_cpu)
    /\ mems' = Append(mems, ret.max_mem)
    /\ i' = i + 1
    /\ pc' = "p2_iter"
    /\ UNCHANGED <<opVars, files, clear_cache, results, written, saved, tIdx, qIdx, sIdx,
                   monVars, samplerVars, rqVars>>

\* The Format_Comparison phase appending the record of a configuration
\* twice.
P2Append_Twice ==
    /\ pc = "p2_agg"
    /\ LET rec == [Experiment |-> "Format_Comparison", Format |-> "CSV",
                   Query |-> QUERIES[qIdx], Threads |-> max_threads,
                   Avg_Time_Sec |-> avg_time, Avg_CPU_Pct |-> avg_cpu_total,
                   Max_Mem_MB |-> max_mem_peak, Raw_Times |-> times]
       IN results' = Append(Append(results, rec), rec)
    /\ \/ /\ qIdx < Len(QUERIES)
          /\ qIdx' = qIdx + 1
          /\ sIdx' = sIdx
          /\ pc' = "p2_config"
       \/ /\ qIdx = Len(QUERIES)
          /\ qIdx' = qIdx
          /\ sIdx' = 1
          /\ pc' = "p3_scale"
    /\ UNCHANGED <<opVars, files, clear_cache, written, saved, tIdx, i, times, cpus, mems,
                   monVars, samplerVars, rqVars>>

\* lines 237-250, and the advance of the loop of line 222.  No statement of
\* the try block raises here (run_query catches the engine's errors and the
\* lists hold ITERATIONS entries), so the handler of line 251 is not entered.
P2Append ==
    /\ pc = "p2_agg"
    /\ results' = Append(results,
            [Experiment |-> "Format_Comparison", Format |-> "CSV",
             Query |-> QUERIES[qIdx], Threads |-> max_threads,
             Avg_Time_Sec |-> avg_time, Avg_CPU_Pct |-> avg_cpu_total,
             Max_Mem_MB |-> max_mem_peak, Raw_Times |-> times])
    /\ \/ /\ qIdx < Len(QUERIES)
          /\ qIdx' = qIdx + 1
          /\ sIdx' = sIdx
          /\ pc' = "p2_config"
       \/ /\ qIdx = Len(QUERIES)
          /\ qIdx' = qIdx
          /\ sIdx' = 1
          /\ pc' = "p3_scale"
    /\ UNCHANGED <<opVars, files, clear_cache, written, saved, tIdx, i, times, cpus, mems,
                   monVars, samplerVars, rqVars>>

\* lines 265-275: the next scale; a scale without files is skipped, a scale
\* with files gets a new connection (with the engine's default thread
\* setting, written 0 here).
P3Scale ==
    /\ pc = "p3_scale"
    /\ \/ /\ sIdx > Len(scales)
          /\ pc' = "save"
          /\ UNCHANGED <<sIdx, qIdx, connThreads>>
       \/ /\ sIdx <= Len(scales)
          /\ Glob(files, scales[sIdx].path) = {}
          /\ sIdx' = sIdx + 1
          /\ pc' = "p3_scale"
          /\ UNCHANGED <<qIdx, connThreads>>
       \/ /\ sIdx <= Len(scales)
          /\ Glob(files, scales[sIdx].path) # {}
          /\ connThreads' = 0
          /\ qIdx' = 1
          /\ sIdx' = sIdx
          /\ pc' = "p3_config"
    /\ UNCHANGED <<opVars, files, clear_cache, results, written, saved, tIdx, i, times,
                   cpus, mems,
                   monVars, samplerVars, caller, calls, now, start_time, end_time, stats,
                   ret, raised, failed>>

\* lines 275-280
P3Config ==
    /\ pc = "p3_config"
    /\ times' = <<>> /\ cpus' = <<>> /\ mems' = <<>>
    /\ i' = 0
    /\ failed' = 0
    /\ caller' = "p3"
    /\ pc' = "p3_iter"
    /\ UNCHANGED <<opVars, files, clear_cache, results, written, saved, tIdx, qIdx, sIdx,
                   monVars,
                   samplerVars, connThreads, calls, now, start_time, end_time, stats, ret,
                   raised>>

\* lines 280-281
P3Iter ==
    /\ pc = "p3_iter"
    /\ \/ /\ i < ITERATIONS
          /\ pc' = "rq_pragma"
       \/ /\ i >= ITERATIONS
          /\ pc' = "p3_agg"
    /\ UNCHANGED <<opVars, mainVars, monVars, samplerVars, rqVars>>

\* lines 281-284
P3Record ==
    /\ pc = "p3_record"
    /\ times' = Append(times, ret.duration)
    /\ cpus' = Append(cpus, ret.avg_cpu)
    /\ mems' = Append(mems, ret.max_mem)
    /\ i' = i + 1
    /\ pc' = "p3_iter"
    /\ UNCHANGED <<opVars, files, clear_cache, results, written, saved, tIdx, qIdx, sIdx,
                   monVars, samplerVars, rqVars>>

\* lines 286-300, and the advance of the loops of lines 265 and 275
P3Append ==
    /\ pc = "p3_agg"
    /\ results' = Append(results,
            [Experiment |-> "Data_Scale", Format |-> "Parquet",
             Query |-> QUERIES[qIdx], Threads |-> max_threads,
             Avg_Time_Sec |-> avg_time, Data_Scale |-> scales[sIdx].name,
             Avg_CPU_Pct |-> avg_cpu_total,
             Max_Mem_MB |-> max_mem_peak, Raw_Times |-> times])
    /\ \/ /\ qIdx < Len(QUERIES)
          /\ qIdx' = qIdx + 1
          /\ sIdx' = sIdx
          /\ pc' = "p3_config"
       \/ /\ qIdx = Len(QUERIES)
          /\ qIdx' = qIdx
          /\ sIdx' = sIdx + 1
          /\ pc' = "p3_scale"
    /\ UNCHANGED <<opVars, files, clear_cache, written, saved, tIdx, i, times, cpus, mems,
                   monVars, samplerVars, rqVars>>

\* lines 303-305: the results are written to RESULT_FILE and main returns.
Save ==
    /\ pc = "save"
    /\ saved' = results
    /\ written' = written + 1
    /\ pc' = "done"
    /\ UNCHANGED <<opVars, files, clear_cache, results, tIdx, qIdx, sIdx, i, times, cpus,
                   mems,
                   monVars, samplerVars, rqVars>>

(***************************************************************************)
(* The specification                                                       *)
(***************************************************************************)
\* The state when main is entered: nothing has run, and the directory holds
\* any of the FileSystems.
Init ==
    /\ files \in FileSystems
    /\ clear_cache = CLEAR_CACHE
    /\ op_begin = 0 /\ op_end = 0
    /\ pc = "main"
    /\ results = <<>>
    /\ written = 0
    /\ saved = <<>>
    /\ tIdx = 1 /\ qIdx = 1 /\ sIdx = 1 /\ i = 0
    /\ times = <<>> /\ cpus = <<>> /\ mems = <<>>
    /\ connThreads = 0
    /\ caller = "p1"
    /\ calls = 0
    /\ running = FALSE
    /\ cpu_usage = <<>> /\ memory_usage = <<>>
    /\ thread = None
    /\ spc = "none"
    /\ cpu = 0 /\ mem = 0
    /\ loops = 0
    /\ alive = 0
    /\ now = 0
    /\ start_time = 0 /\ end_time = 0
    /\ stats = [avg_cpu |-> Rat(0, 1), max_mem |-> 0]
    /\ ret = [duration |-> 0, avg_cpu |-> Rat(0, 1), max_mem |-> 0]
    /\ raised = FALSE
    /\ failed = 0

Next ==
    \/ MainCheckParquet
    \/ P1Config \/ P1Iter \/ P1Record \/ P1Append
    \/ P2Check \/ P2Config \/ P2Iter \/ P2Record \/ P2Append
    \/ P3Scale \/ P3Config \/ P3Iter \/ P3Record \/ P3Append
    \/ Save
    \/ RqPragma \/ RqDropCaches \/ DcSync \/ DcSecond \/ DcExcept
    \/ RqNewMonitor \/ RqStartTime \/ RqMonitorStart
    \/ RqExecBegin \/ RqExecEnd \/ RqStopSignal \/ RqStopJoin
    \/ RqEndTime \/ RqGetStats \/ RqReturn
    \/ SamplerWhile \/ SamplerCpuPercent \/ SamplerMemoryInfo
    \/ SamplerAppendCpu \/ SamplerAppendMem

Spec == Init /\ [][Next]_vars

(***************************************************************************)
(* get_stats on its own                                                    *)
(***************************************************************************)
\* The longest series get_stats is applied to.
MaxSeries == 3

\* Values of psutil's cpu_percent and of the resident set size in MB.
CpuSamples == {0, 1, 3}
MemSamples == {1, 2, 5}

\* The lists over S of at most n elements.
SeqsUpTo(S, n) == UNION { [1..k -> S] : k \in 0..n }

\* The directories with which main gets past line 171.
BenchmarkFiles == { fs \in FileSystems : Glob(fs, PARQUET_PATH) # {} }

\* The first call of run_query has reached line 76: the query took one unit
\* of time and did not raise, monitor.stop() has returned, and the sampler
\* thread has left any pair of series of equal length behind.
InitStats ==
    /\ files \in BenchmarkFiles
    /\ clear_cache = CLEAR_CACHE
    /\ pc = "rq_stats"
    /\ results = <<>> /\ written = 0 /\ saved = <<>>
    /\ tIdx = 1 /\ qIdx = 1 /\ sIdx = 1 /\ i = 0
    /\ times = <<>> /\ cpus = <<>> /\ mems = <<>>
    /\ connThreads = THREAD_COUNTS[1]
    /\ caller = "p1"
    /\ calls = 1
    /\ running = FALSE
    /\ cpu_usage \in SeqsUpTo(CpuSamples, MaxSeries)
    /\ memory_usage \in [1..Len(cpu_usage) -> MemSamples]
    /\ thread = "Thread"
    /\ spc = "dead"
    /\ cpu = IF cpu_usage = <<>> THEN 0 ELSE cpu_usage[Len(cpu_usage)]
    /\ mem = IF memory_usage = <<>> THEN 0 ELSE memory_usage[Len(memory_usage)]
    /\ loops = Len(cpu_usage)
    /\ alive = 0
    /\ now = 1
    /\ start_time = 0 /\ end_time = 1
    /\ op_begin = 0 /\ op_end = 1
    /\ stats = [avg_cpu |-> Rat(0, 1), max_mem |-> 0]
    /\ ret = [duration |-> 0, avg_cpu |-> Rat(0, 1), max_mem |-> 0]
    /\ raised = FALSE
    /\ failed = 0

NextStats == RqGetStats

SpecStats == InitStats /\ [][NextStats]_vars

(***************************************************************************)
(* The aggregation of one configuration on its own                         *)
(***************************************************************************)
\* Durations, average CPU figures and memory peaks run_query returns.
Durations == {1, 3}
CpuAverages == {10, 25}
MemPeaks == {100, 150}

\* The records of the Parallelism phase when every query took one unit of
\* time and no sample was taken.
ParallelismRecords ==
    [k \in 1..(Len(THREAD_COUNTS) * Len(QUERIES)) |->
        [Experiment |-> "Parallelism", Format |-> "Parquet",
         Query |-> QUERIES[((k - 1) % Len(QUERIES)) + 1],
         Threads |-> THREAD_COUNTS[((k - 1) \div Len(QUERIES)) + 1],
         Avg_Time_Sec |-> Rat(1, 1), Avg_CPU_Pct |-> Rat(0, 1),
         Max_Mem_MB |-> 0, Raw_Times |-> [j \in 1..ITERATIONS |-> 1]]]

\* The first configuration of each phase at its aggregation: the phase, the
\* directory, the records appended before and the setting of the connection.
AggregationEntries ==
    { [caller |-> "p1", pc |-> "p1_agg", files |-> FileNames,
       results |-> <<>>, tIdx |-> 1, connThreads |-> THREAD_COUNTS[1]],
      [caller |-> "p2", pc |-> "p2_agg", files |-> FileNames,
       results |-> ParallelismRecords, tIdx |-> Len(THREAD_COUNTS),
       connThreads |-> max_threads],
      [caller |-> "p3", pc |-> "p3_agg",
       files |-> FileNames \ Glob(FileNames, CSV_PATH),
       results |-> ParallelismRecords, tIdx |-> Len(THREAD_COUNTS),
       connThreads |-> max_threads] }

\* The ITERATIONS calls of run_query for the first configuration of a phase
\* have returned any durations, CPU averages and memory peaks, none has
\* raised, and lines 194, 237 or 286 are reached.  The monitor is the one
\* of the last call, which took a single sample.
InitAgg ==
    /\ \E e \in AggregationEntries :
         /\ caller = e.caller /\ pc = e.pc /\ files = e.files
         /\ results = e.results /\ tIdx = e.tIdx /\ connThreads = e.connThreads
    /\ clear_cache = CLEAR_CACHE
    /\ written = 0 /\ saved = <<>>
    /\ qIdx = 1 /\ sIdx = 1
    /\ i = ITERATIONS
    /\ times \in [1..ITERATIONS -> Durations]
    /\ cpus \in [1..ITERATIONS -> { Rat(c, 1) : c \in CpuAverages }]
    /\ mems \in [1..ITERATIONS -> MemPeaks]
    /\ calls = Len(results) * ITERATIONS + ITERATIONS
    /\ running = FALSE
    /\ cpu = cpus[ITERATIONS].num /\ mem = mems[ITERATIONS]
    /\ cpu_usage = <<cpu>> /\ memory_usage = <<mem>>
    /\ thread = "Thread"
    /\ spc = "dead"
    /\ loops = 1
    /\ alive = 0
    /\ now = Len(results) * ITERATIONS + Sum(times)
    /\ start_time = now - times[ITERATIONS] /\ end_time = now
    /\ op_begin = start_time /\ op_end = now
    /\ stats = [avg_cpu |-> cpus[ITERATIONS], max_mem |-> mems[ITERATIONS]]
    /\ ret = [duration |-> times[ITERATIONS], avg_cpu |-> cpus[ITERATIONS],
              max_mem |-> mems[ITERATIONS]]
    /\ raised = FALSE
    /\ failed = 0

NextAgg == P1Append \/ P2Append \/ P3Append

SpecAgg == InitAgg /\ [][NextAgg]_vars

(***************************************************************************)
(* One call of run_query on its own                                        *)
(***************************************************************************)
\* The latest reading of the wall clock at which time still passes outside
\* the engine call.
MaxClock == 3

\* main has called run_query for the first time (line 189): the directory
\* holds Parquet files, and CLEAR_CACHE is on or has been turned off.
InitCall ==
    /\ files \in BenchmarkFiles
    /\ clear_cache \in BOOLEAN
    /\ pc = "rq_pragma"
    /\ results = <<>> /\ written = 0 /\ saved = <<>>
    /\ tIdx = 1 /\ qIdx = 1 /\ sIdx = 1 /\ i = 0
    /\ times = <<>> /\ cpus = <<>> /\ mems = <<>>
    /\ connThreads = 0
    /\ caller = "p1"
    /\ calls = 0
    /\ running = FALSE
    /\ cpu_usage = <<>> /\ memory_usage = <<>>
    /\ thread = None
    /\ spc = "none"
    /\ cpu = 0 /\ mem = 0
    /\ loops = 0
    /\ alive = 0
    /\ now = 0
    /\ start_time = 0 /\ end_time = 0
    /\ op_begin = 0 /\ op_end = 0
    /\ stats = [avg_cpu |-> Rat(0, 1), max_mem |-> 0]
    /\ ret = [duration |-> 0, avg_cpu |-> Rat(0, 1), max_mem |-> 0]
    /\ raised = FALSE
    /\ failed = 0

\* Time passes while the primary thread is in run_query, between any two of
\* its steps and of the sampler thread's.
Tick ==
    /\ pc \in {"rq_pragma", "rq_drop", "dc_sync", "dc_second", "dc_except",
                "rq_monitor", "rq_start_time", "rq_start", "rq_exec",
                "rq_executing", "rq_stop", "rq_join", "rq_end_time", "rq_stats",
                "rq_return"}
    /\ now < MaxClock
    /\ now' = now + 1
    /\ UNCHANGED <<opVars, pc, mainVars, monVars, samplerVars, connThreads, caller, calls,
                   start_time, end_time, stats, ret, raised, failed>>

\* The steps of the primary thread in run_query and drop_os_caches.
PrimaryStep ==
    \/ RqPragma \/ RqDropCaches \/ DcSync \/ DcSecond \/ DcExcept
    \/ RqNewMonitor \/ RqStartTime \/ RqMonitorStart
    \/ RqExecBegin \/ RqExecEnd \/ RqStopSignal \/ RqStopJoin
    \/ RqEndTime \/ RqGetStats \/ RqReturn

\* The steps of the sampler thread in _monitor.
SamplerStep ==
    \/ SamplerWhile \/ SamplerCpuPercent \/ SamplerMemoryInfo
    \/ SamplerAppendCpu \/ SamplerAppendMem

NextCall == PrimaryStep \/ SamplerStep \/ Tick

\* Both threads are scheduled again and again, and every blocking call
\* (an external command, the engine call, an observation) comes back.
SpecCall ==
    InitCall /\ [][NextCall]_vars /\ WF_vars(PrimaryStep) /\ WF_vars(SamplerStep)

(***************************************************************************)
(* Properties                                                              *)
(***************************************************************************)
\* The positions of the primary thread between the return of
\* monitor.start() and the return of monitor.stop().
Monitored == {"rq_exec", "rq_executing", "rq_stop", "rq_join"}

\* The positions of the primary thread inside the try block and the handler
\* of drop_os_caches.
InDropCaches == {"dc_sync", "dc_second", "dc_except"}

\* The positions of the primary thread inside run_query.
InRunQuery ==
    {"rq_pragma", "rq_drop", "rq_monitor", "rq_start_time", "rq_start",
     "rq_end_time", "rq_stats", "rq_return"} \cup InDropCaches \cup Monitored

\* The positions run_query returns to.
RecordSites == {"p1_record", "p2_record", "p3_record"}

\* stop() of the current monitor has returned and the monitor has not been
\* replaced by the next call's.
StopReturned == thread # None /\ pc \notin Monitored

\* C1: a Sample is appended to cpu_usage or memory_usage only while the
\* primary thread is between the return of start() and the return of stop();
\* once stop() has returned, the lengths of both series of that monitor no
\* longer change.
C1_SamplesBetweenStartAndStop ==
    /\ [][(cpu_usage' # cpu_usage \/ memory_usage' # memory_usage)
            => (pc \in Monitored \/ (pc = "rq_monitor" /\ pc' = "rq_start_time"))]_vars
    /\ [][(StopReturned /\ thread' # None)
            => (Len(cpu_usage') = Len(cpu_usage)
                /\ Len(memory_usage') = Len(memory_usage))]_vars

\* stop() has returned on a series that holds two Samples.
C1_Witness ==
    /\ pc = "rq_end_time"
    /\ Len(cpu_usage) = 2
    /\ Len(memory_usage) = 2

\* C2: whenever the primary thread is about to read the series in
\* get_stats(), stop() has returned and the sampler thread of that monitor
\* has terminated, whether the query returned or raised.
C2_StatsAfterStop ==
    pc = "rq_stats" => (thread # None /\ spc = "dead" /\ ~running /\ alive = 0)

\* get_stats() is reached on the failure path with a Sample recorded.
C2_Witness ==
    /\ pc = "rq_stats"
    /\ raised
    /\ Len(cpu_usage) >= 1

\* C3: when run_query returns, after a query that returned or that raised,
\* the sampler thread it started has terminated and no sampler thread is
\* alive.
C3_SamplerStoppedOnExit ==
    pc \in RecordSites => (thread # None /\ ~ThreadAlive /\ alive = 0 /\ ~running)

\* run_query has returned after a query that raised.
C3_Witness ==
    /\ pc \in RecordSites
    /\ raised
    /\ thread # None

\* The positions at which the aggregates of a configuration are computed
\* and its record is appended.
AggSites == {"p1_agg", "p2_agg", "p3_agg"}

\* C4: when a configuration ends with k failed iterations, 0 < k < ITERATIONS,
\* the record appended for it holds ITERATIONS - k raw times (the failed
\* iterations are left out of Raw_Times and of the aggregates).
C4_FailedIterationsExcluded ==
    [][(pc \in AggSites /\ 0 < failed /\ failed < ITERATIONS)
        => /\ Len(results') = Len(results) + 1
           /\ Len(results'[Len(results')].Raw_Times) = ITERATIONS - failed]_vars

\* C5: when every iteration of a configuration failed, the step that ends
\* the configuration appends no record.
C5_NoRecordWhenAllFail ==
    [][(pc \in AggSites /\ failed = ITERATIONS) => results' = results]_vars

\* The scales whose pattern matches a file.
FoundScales(fs) == {k \in 1..Len(scales) : Glob(fs, scales[k].path) # {}}

\* The number of configurations main enumerates over the directory fs.
NumConfigs(fs) ==
    Len(THREAD_COUNTS) * Len(QUERIES)
    + (IF Glob(fs, CSV_PATH) # {} THEN Len(QUERIES) ELSE 0)
    + Cardinality(FoundScales(fs)) * Len(QUERIES)

PatternOf(r) ==
    CASE r.Experiment = "Parallelism" -> PARQUET_PATH
      [] r.Experiment = "Format_Comparison" -> CSV_PATH
      [] OTHER -> (CHOOSE sc \in {scales[k] : k \in 1..Len(scales)} :
                        sc.name = r.Data_Scale).path

\* C7: no query runs and no record exists for a configuration whose pattern
\* matches no file, and main still ends with the records of all the other
\* configurations written.
C7_MissingDataSkipped ==
    /\ \A k \in 1..Len(results) : Glob(files, PatternOf(results[k])) # {}
    /\ (pc \in InRunQuery \cup RecordSites /\ caller = "p2") => Glob(files, CSV_PATH) # {}
    /\ (pc \in InRunQuery \cup RecordSites /\ caller = "p3")
            => Glob(files, scales[sIdx].path) # {}
    /\ Glob(files, PARQUET_PATH) # {} /\ ~ENABLED Next
            => (pc = "done" /\ written = 1 /\ calls = NumConfigs(files) * ITERATIONS)

\* main has returned from a run without CSV files and without files of the
\* 1_Month scale, having recorded another scale.
C7_Witness ==
    /\ pc = "done"
    /\ Glob(files, CSV_PATH) = {}
    /\ Glob(files, scales[1].path) = {}
    /\ written = 1
    /\ \E k \in 1..Len(results) : results[k].Experiment = "Data_Scale"

IndexOf(s, x) == CHOOSE k \in 1..Len(s) : s[k] = x

\* The place of the record r in the order of enumeration: the phase, then
\* the thread count (Parallelism) or the scale (Data_Scale), then the query.
Rank(r) ==
    LET phase == CASE r.Experiment = "Parallelism" -> 1
                   [] r.Experiment = "Format_Comparison" -> 2
                   [] OTHER -> 3
        major == CASE r.Experiment = "Parallelism" -> r.Threads
                   [] r.Experiment = "Format_Comparison" -> 0
                   [] OTHER -> IndexOf([k \in 1..Len(scales) |-> scales[k].name],
                                       r.Data_Scale)
    IN <<phase, major, IndexOf(QUERIES, r.Query)>>

\* The lexicographic order on ranks.
RankLess(a, b) ==
    \/ a[1] < b[1]
    \/ a[1] = b[1] /\ a[2] < b[2]
    \/ a[1] = b[1] /\ a[2] = b[2] /\ a[3] < b[3]

\* C9: the records of results are in the order of enumeration (Parallelism
\* before Format_Comparison before Data_Scale, within Parallelism ascending
\* thread counts, and Q1, Q2, Q3 for each of them): every step that changes
\* results leaves the records it held in place and adds, after them, one
\* record that comes later in the enumeration than each of them.
C9_RecordsInEnumerationOrder ==
    [][results' # results =>
        /\ Len(results') = Len(results) + 1
        /\ SubSeq(results', 1, Len(results)) = results
        /\ \A k \in 1..Len(results) :
                RankLess(Rank(results[k]), Rank(results'[Len(results')]))]_vars

\* results holds records of all three phases and of the thread counts 1 and 2.
C9_Witness ==
    /\ \E k \in 1..Len(results) : results[k].Experiment = "Format_Comparison"
    /\ \E k \in 1..Len(results) : results[k].Experiment = "Data_Scale"
    /\ \E a, b \in 1..Len(results) :
            /\ a < b
            /\ results[a].Experiment = "Parallelism" /\ results[a].Threads = 1
            /\ results[b].Experiment = "Parallelism" /\ results[b].Threads = 2

\* C10: at most one sampler thread is alive, and only while the primary
\* thread is between start() and the return of stop(); an iteration begins
\* (PRAGMA, cache eviction, new monitor, start()) only when no sampler
\* thread is alive and the triples of all earlier iterations of the
\* configuration are in times, cpus and mems.
C10_StrictlySequential ==
    /\ alive <= 1
    /\ alive = 1 => pc \in Monitored
    /\ pc \in {"rq_pragma", "rq_drop", "rq_monitor", "rq_start_time", "rq_start"}
               \cup InDropCaches =>
        /\ alive = 0
        /\ ~ThreadAlive
        /\ Len(times) = i /\ Len(cpus) = i /\ Len(mems) = i

\* The second iteration of a configuration is about to begin, after a first
\* one whose sampler recorded a Sample and has terminated.
C10_Witness ==
    /\ pc = "rq_pragma"
    /\ i = 1
    /\ spc = "dead"
    /\ Len(cpu_usage) >= 1

\* C11: when get_stats has been applied to a series of N >= 1 samples, the
\* average CPU it reports is the arithmetic mean of the CPU samples (the
\* reported fraction times N is their total) and the memory figure is the
\* largest memory sample: one of the samples, and no sample exceeds it.  On
\* a series without samples it reports (0, 0).
C11_StatsAreMeanAndMax ==
    pc = "rq_return" =>
        LET n == Len(cpu_usage)
            total[k \in 0..n] == IF k = 0 THEN 0 ELSE total[k - 1] + cpu_usage[k]
        IN  IF n = 0
            THEN stats.avg_cpu = [num |-> 0, den |-> 1] /\ stats.max_mem = 0
            ELSE /\ stats.avg_cpu.den > 0
                 /\ stats.avg_cpu.num * n = total[n] * stats.avg_cpu.den
                 /\ \E k \in 1..n : stats.max_mem = memory_usage[k]
                 /\ \A k \in 1..n : memory_usage[k] <= stats.max_mem

\* get_stats has been applied to three samples whose mean is not a whole
\* number and whose largest memory sample is neither the first nor the last.
C11_Witness ==
    /\ pc = "rq_return"
    /\ cpu_usage = <<1, 3, 3>>
    /\ memory_usage = <<2, 5, 1>>
    /\ stats = [avg_cpu |-> [num |-> 7, den |-> 3], max_mem |-> 5]

\* C12: the record appended for a configuration none of whose iterations
\* raised carries the durations in iteration order as Raw_Times, their
\* arithmetic mean as Avg_Time_Sec, the arithmetic mean of the per-iteration
\* CPU averages as Avg_CPU_Pct, and the largest per-iteration memory peak
\* as Max_Mem_MB.
C12_RecordAggregatesIterations ==
    [][(pc \in AggSites /\ failed = 0) =>
        LET r == results'[Len(results')]
            n == Len(times)
            tsum[k \in 0..n] == IF k = 0 THEN 0 ELSE tsum[k - 1] + times[k]
            dens[k \in 0..n] == IF k = 0 THEN 1 ELSE dens[k - 1] * cpus[k].den
            csum[k \in 0..n] ==
                IF k = 0 THEN 0
                ELSE csum[k - 1] + cpus[k].num * (dens[n] \div cpus[k].den)
        IN  /\ Len(results') = Len(results) + 1
            /\ n = ITERATIONS
            /\ r.Raw_Times = times
            /\ r.Avg_Time_Sec.den > 0
            /\ r.Avg_Time_Sec.num * n = tsum[n] * r.Avg_Time_Sec.den
            /\ r.Avg_CPU_Pct.den > 0
            /\ r.Avg_CPU_Pct.num * n * dens[n] = csum[n] * r.Avg_CPU_Pct.den
            /\ \E k \in 1..n : r.Max_Mem_MB = mems[k]
            /\ \A k \in 1..n : mems[k] <= r.Max_Mem_MB]_vars

\* The first record of the Parallelism phase has been appended for
\* iterations that differ in duration, CPU average and memory peak, the
\* largest peak being that of the second iteration.
C12_Witness ==
    /\ pc = "p1_config"
    /\ times = <<1, 3, 3, 1, 3>>
    /\ cpus = <<Rat(10, 1), Rat(25, 1), Rat(25, 1), Rat(10, 1), Rat(10, 1)>>
    /\ mems = <<100, 150, 100, 100, 100>>
    /\ results = << [Experiment |-> "Parallelism", Format |-> "Parquet",
                     Query |-> "Q1", Threads |-> 1,
                     Avg_Time_Sec |-> [num |-> 11, den |-> 5],
                     Avg_CPU_Pct |-> [num |-> 16, den |-> 1],
                     Max_Mem_MB |-> 150, Raw_Times |-> <<1, 3, 3, 1, 3>>] >>

\* The sampler thread of the current monitor has ended in the handler of
\* line 32: it is dead and its last loop iteration recorded no sample.
ObservationFailed == spc = "dead" /\ loops > Len(cpu_usage)

\* C13: a failed observation ends the sampler thread, with no retry, and
\* changes nothing else: the primary thread stays where it is, no error is
\* raised in it, and the samples recorded before stay in the series.  After
\* it stop() still returns, get_stats reports the statistics of the partial
\* series, and run_query returns its triple as usual.
C13_ObservationFailureContained ==
    /\ [][(spc = "cpu" => spc' \in {"cpu", "mem", "dead"})
          /\ (spc = "mem" => spc' \in {"mem", "app_cpu", "dead"})]_vars
    /\ [][(spc \in {"cpu", "mem"} /\ spc' = "dead") =>
            /\ pc' = pc
            /\ cpu_usage' = cpu_usage /\ memory_usage' = memory_usage
            /\ raised' = raised /\ failed' = failed
            /\ ~ThreadAlive']_vars
    /\ [](ObservationFailed =>
            /\ Len(cpu_usage) = loops - 1
            /\ Len(memory_usage) = loops - 1
            /\ pc = "rq_join" => ENABLED RqStopJoin
            /\ pc = "rq_return" => stats = get_stats(cpu_usage, memory_usage)
            /\ pc \in RecordSites =>
                 ret = [duration |-> end_time - start_time,
                        avg_cpu |-> stats.avg_cpu, max_mem |-> stats.max_mem])

\* run_query has returned from a call whose sampler thread recorded one
\* sample and ended with a failed observation in its second iteration.
C13_Witness ==
    /\ pc \in RecordSites
    /\ ObservationFailed
    /\ Len(cpu_usage) = 1
    /\ loops = 2

\* C14: RESULT_FILE is written exactly once in a run that is not aborted,
\* by the step that ends main after the Data_Scale loop has gone through
\* all scales, and with all the records appended; it is not written before
\* (so not between phases), not in an aborted run, and no record is
\* appended after the write.
C14_SavedOnceAtTheEnd ==
    /\ [](/\ written = (IF pc = "done" THEN 1 ELSE 0)
          /\ pc = "done" => saved = results
          /\ pc # "done" => saved = <<>>)
    /\ [][written' # written =>
            /\ pc = "save" /\ pc' = "done"
            /\ sIdx = Len(scales) + 1
            /\ saved' = results]_vars
    /\ [][written >= 1 => results' = results]_vars

\* main has returned after writing the records of all three phases.
C14_Witness ==
    /\ pc = "done"
    /\ written = 1
    /\ saved = results
    /\ \E k \in 1..Len(saved) : saved[k].Experiment = "Format_Comparison"
    /\ saved[Len(saved)].Experiment = "Data_Scale"

\* C15: with both threads scheduled fairly and every observation returning,
\* a call of stop() returns: it is followed by the statement after it, line
\* 74.  Once running is False the sampler loop begins no further iteration,
\* so the thread finishes at most the iteration it is in (which records at
\* most one more sample) and then ends.
C15_StopTerminates ==
    /\ (pc = "rq_stop") ~> (pc = "rq_end_time")
    /\ [][(~running /\ thread # None /\ thread' = thread) => loops' = loops]_vars
    /\ [](Len(cpu_usage) <= loops /\ Len(cpu_usage) >= loops - 1)

\* stop() has set running to False and waits in join while the sampler
\* thread is inside an observation of its second loop iteration.
C15_Witness ==
    /\ pc = "rq_join"
    /\ ~running
    /\ spc = "cpu"
    /\ loops = 2

\* C16: run_query reads the clock for start_time before the sampler thread
\* exists, starts the sampler thread before it calls the engine, calls
\* stop() when the engine call has returned or raised, and reads the clock
\* for end_time only when stop() has returned.  So the engine call lies
\* between the two readings, and the duration run_query returns is at least
\* the time the engine call took, whether it raised or not.
C16_DurationCoversOperation ==
    /\ [][(pc = "rq_start_time" /\ pc' # pc) =>
            (thread = None /\ ~ThreadAlive /\ start_time' = now)]_vars
    /\ [][(pc = "rq_start" /\ pc' # pc) =>
            (pc' = "rq_exec" /\ ThreadAlive' /\ start_time <= now)]_vars
    /\ [][(pc = "rq_exec" /\ pc' # pc) =>
            (pc' = "rq_executing" /\ thread # None /\ running /\ op_begin' = now)]_vars
    /\ [][(pc = "rq_executing" /\ pc' # pc) =>
            (pc' = "rq_stop" /\ op_end' = now' /\ now' >= now)]_vars
    /\ [][(pc = "rq_end_time" /\ pc' # pc) =>
            (~ThreadAlive /\ ~running /\ end_time' = now)]_vars
    /\ [](pc \in {"rq_stats", "rq_return"} \cup RecordSites =>
            /\ start_time <= op_begin
            /\ op_begin <= op_end
            /\ op_end <= end_time)
    /\ [](pc \in RecordSites =>
            /\ ret.duration = end_time - start_time
            /\ ret.duration >= op_end - op_begin)

\* run_query has returned from a call whose query raised, and time passed
\* both before the engine call and while stop() waited: the duration is
\* longer than the engine call took.
C16_Witness ==
    /\ pc \in RecordSites
    /\ raised
    /\ start_time < op_begin
    /\ op_end < end_time
    /\ ret.duration > op_end - op_begin

\* C17: control leaves drop_os_caches only by returning to run_query, line
\* 64, whatever the platform and whichever command fails; the engine call
\* of the timed execution is then reached.  With CLEAR_CACHE off
\* drop_os_caches returns without invoking any command.
C17_EvictionFailureContained ==
    /\ [][(pc \in {"rq_drop"} \cup InDropCaches) =>
            (pc' \in {"rq_drop", "rq_monitor"} \cup InDropCaches)]_vars
    /\ [][(pc = "rq_drop" /\ ~clear_cache) => pc' \in {"rq_drop", "rq_monitor"}]_vars
    /\ [](pc \in InDropCaches => clear_cache)
    /\ (pc \in {"rq_drop"} \cup InDropCaches) ~> (pc = "rq_executing")

\* A command of drop_os_caches has failed and the handler of line 153 has
\* been entered.
C17_Witness ==
    /\ pc = "dc_except"
    /\ clear_cache
    /\ calls = 1

\* C18: every call of run_query creates a monitor of its own, whose series
\* are empty and which has no thread, before it starts sampling; the series
\* hold at most one sample for each loop iteration of that monitor's
\* thread, and the (avg_cpu, max_mem) the call returns are the statistics
\* of those series.
C18_FreshSamplerPerCall ==
    /\ [][(pc = "rq_monitor" /\ pc' # pc) =>
            /\ pc' = "rq_start_time"
            /\ cpu_usage' = <<>> /\ memory_usage' = <<>>]_vars
    /\ [](pc \in {"rq_start_time", "rq_start"} =>
            /\ cpu_usage = <<>> /\ memory_usage = <<>>
            /\ thread = None /\ ~running /\ ~ThreadAlive)
    /\ [](pc \in InRunQuery \ ({"rq_pragma", "rq_drop", "rq_monitor"} \cup InDropCaches) =>
            /\ Len(cpu_usage) <= loops
            /\ Len(memory_usage) <= loops)
    /\ [](pc \in RecordSites =>
            /\ stats = get_stats(cpu_usage, memory_usage)
            /\ ret.avg_cpu = stats.avg_cpu
            /\ ret.max_mem = stats.max_mem)

\* The second call of run_query has created its monitor, while the lists of
\* the configuration hold the figures of the first call.
C18_Witness ==
    /\ pc = "rq_start"
    /\ calls = 2
    /\ Len(cpus) = 1
    /\ cpu_usage = <<>> /\ memory_usage = <<>>

\* The configuration a record was measured for.
ConfigOf(r) ==
    <<r.Experiment, r.Format, r.Query, r.Threads,
      IF r.Experiment = "Data_Scale" THEN r.Data_Scale ELSE "">>

\* C19: results only grows at its end: no step changes, removes or moves a
\* record it holds, a step that changes it adds one record, and the record
\* added is for a configuration none of the records before is for.  So
\* results never holds more records than there are configurations with
\* data.
C19_AppendOnlyOnePerConfiguration ==
    /\ [][\A k \in 1..Len(results) :
            k <= Len(results') /\ results'[k] = results[k]]_vars
    /\ [][results' # results =>
            /\ Len(results') = Len(results) + 1
            /\ \A k \in 1..Len(results) :
                    ConfigOf(results[k]) # ConfigOf(results'[Len(results')])]_vars
    /\ [](Len(results) <= NumConfigs(files))

\* main has returned with one record for each of the 30 configurations of a
\* directory that has files for all of them.
C19_Witness ==
    /\ pc = "done"
    /\ files = FileNames
    /\ Len(results) = Len(THREAD_COUNTS) * Len(QUERIES) + Len(QUERIES)
                        + Len(scales) * Len(QUERIES)

\* C20: whenever the sampler thread of the monitor is not alive (it has not
\* been started, stop() has returned, or it has ended early) the two series
\* have the same length; while it is alive only the CPU sample of the
\* iteration in progress can be unpaired.
C20_SeriesPaired ==
    /\ ~ThreadAlive => Len(cpu_usage) = Len(memory_usage)
    /\ ThreadAlive =>
        Len(cpu_usage) = Len(memory_usage) + (IF spc = "app_mem" THEN 1 ELSE 0)

\* The sampler thread has ended early, during the engine call, with a failed
\* observation in its second iteration; one pair of samples is recorded.
C20_Witness ==
    /\ pc = "rq_executing"
    /\ spc = "dead"
    /\ running
    /\ loops = 2
    /\ Len(cpu_usage) = 1 /\ Len(memory_usage) = 1

============================================================================
